---------------------------- MODULE Spec2Model ----------------------------
(***************************************************************************)
(* The two tutorial notebooks of                                           *)
(*   examples/tutorials/Part 13a - Secure Classification with Syft Keras   *)
(*   and TFE - Public Training.ipynb                                       *)
(*                                                                         *)
(*  - the Keras notebook: one training cell (build, compile, fit,          *)
(*    evaluate) and one cell that saves the model;                         *)
(*  - the secret-sharing notebook: a linear model trained on tensors that  *)
(*    are fixed-precision encoded and additively shared between alice and  *)
(*    bob, with james as crypto provider.                                  *)
(*                                                                         *)
(* The notebook cells are translated statement by statement.  The tensor   *)
(* library the cells call (fix_precision, share, get, matmul, truncation)  *)
(* is not part of the sources at hand; it is modelled after the glossary   *)
(* of the specification (additive shares in a ring, integer encoding with  *)
(* an implicit scale factor, multiplication triples from the provider) and *)
(* validated against the outputs recorded in the notebook.                 *)
(***************************************************************************)
EXTENDS Integers, Sequences, FiniteSets, TLC

VARIABLES
    (* secret-sharing notebook *)
    pc,             \* next statement of the notebook run
    i,              \* loop variable of `for i in range(20)`
    rng,            \* state of the random generator: seed and draws made
    store,          \* store[w][name]: the objects worker w holds
    stdout,         \* the last two lines printed by the training cell
    as_recorded,    \* every line printed so far equals the recorded output
    out7,           \* Out[7], the value of the last code cell
    (* encode / share / get / decode of one value *)
    rt,
    (* Keras notebook *)
    kpc,            \* statement the kernel is executing, or "idle"
    keras_model,    \* the kernel's binding of `model`
    score,          \* the kernel's binding of `score`
    h5,             \* content of short-conv-mnist.h5
    execution_count \* the kernel's execution counter

vars == <<pc, i, rng, store, stdout, as_recorded, out7, rt,
          kpc, keras_model, score, h5, execution_count>>

smpcVars  == <<pc, i, rng, store, stdout, as_recorded, out7>>
kerasVars == <<kpc, keras_model, score, h5, execution_count>>

-----------------------------------------------------------------------------
(* Bounds of the model *)

\* number of seeds of the random generator that are explored
NumSeeds == 2
\* distance of two consecutive draws of the generator, in blocks of `scale`
DrawStep == 617
\* distance of the first draws of two seeds, in blocks of `scale`
SeedStep == 2731
\* how many cell executions of the Keras notebook are explored
MaxExecutions == 4
\* most decimal digits of a value that is encoded and decoded
MaxDigits == 4

-----------------------------------------------------------------------------
(* Decimal numbers: <<m, e>> is m * 10^(-e), the way a float tensor value  *)
(* reads when printed.  Normal form: e = 0 or m not divisible by 10.       *)

RECURSIVE Normalize(_)
Normalize(d) ==
    IF d[2] > 0 /\ d[1] % 10 = 0
    THEN Normalize(<<d[1] \div 10, d[2] - 1>>)
    ELSE d

Abs(n) == IF n < 0 THEN -n ELSE n

\* integer quotient rounded toward zero: what .long() does to a float
TruncDiv(n, d) == IF n >= 0 THEN n \div d ELSE -((-n) \div d)

\* d1 < d2
DecLess(d1, d2) ==
    LET e == IF d1[2] > d2[2] THEN d1[2] ELSE d2[2]
    IN  d1[1] * 10^(e - d1[2]) < d2[1] * 10^(e - d2[2])

-----------------------------------------------------------------------------
(* Tensors are matrices: sequences of rows.  A column vector is n x 1.     *)

MapT(Op(_), T) == [r \in 1..Len(T) |-> [c \in 1..Len(T[r]) |-> Op(T[r][c])]]
Zip(Op(_, _), A, B) ==
    [r \in 1..Len(A) |-> [c \in 1..Len(A[r]) |-> Op(A[r][c], B[r][c])]]
Transpose(T) == [c \in 1..Len(T[1]) |-> [r \in 1..Len(T) |-> T[r][c]]]

RECURSIVE SumSeq(_, _)
SumSeq(s, n) == IF n = 0 THEN 0 ELSE SumSeq(s, n - 1) + s[n]

\* sum of all entries
SumT(T) == SumSeq([r \in 1..Len(T) |-> SumSeq(T[r], Len(T[r]))], Len(T))

-----------------------------------------------------------------------------
(* The notebook's plaintext inputs *)

data   == << <<<<0, 0>>, <<0, 0>>>>,
             <<<<0, 0>>, <<1, 0>>>>,
             <<<<1, 0>>, <<0, 0>>>>,
             <<<<1, 0>>, <<1, 0>>>> >>
target == << <<<<0, 0>>>>, <<<<0, 0>>>>, <<<<1, 0>>>>, <<<<1, 0>>>> >>
model  == << <<<<0, 0>>>>, <<<<0, 0>>>> >>
\* learning_rate = 0.1; the variant is a rate of 1
learning_rate_one == <<1, 0>>
learning_rate == <<1, 1>>

\* for i in range(20); the variant stops after half of the iterations
NumIterationsHalved == 20 \div 2
NumIterations == 20

\* .share(alice, bob, crypto_provider=james); the variants share with the
\* crypto provider, and hand the value to alice alone
ShareHoldersAliceJames == <<"alice", "james">>
ShareHoldersAliceOnly == <<"alice">>
ShareHolders == <<"alice", "bob">>
crypto_provider == "james"

\* sy.VirtualWorker(id=...)
Workers == {"alice", "bob", "james"}

\* the lines the training cell printed in the recorded run
recorded_stdout ==
    << Normalize(<<20000, 4>>), Normalize(<<16000, 4>>), Normalize(<<13000, 4>>),
       Normalize(<<10720, 4>>), Normalize(<<8960, 4>>),  Normalize(<<7580, 4>>),
       Normalize(<<6480, 4>>),  Normalize(<<5600, 4>>),  Normalize(<<4880, 4>>),
       Normalize(<<4280, 4>>),  Normalize(<<3760, 4>>),  Normalize(<<3340, 4>>),
       Normalize(<<2960, 4>>),  Normalize(<<2640, 4>>),  Normalize(<<2360, 4>>),
       Normalize(<<2100, 4>>),  Normalize(<<1900, 4>>),  Normalize(<<1720, 4>>),
       Normalize(<<1560, 4>>),  Normalize(<<1400, 4>>) >>

\* the recorded Out[7]
recorded_out7 == << <<Normalize(<<9370, 4>>)>>, <<Normalize(<<610, 4>>)>> >>

-----------------------------------------------------------------------------
(* The tensor library: fixed precision *)

\* the fixed-precision encoding keeps 3 decimal digits in base 10
base == 10
precision_fractional == 3
scale == base ^ precision_fractional

\* the ring of the shares: integers modulo field.  (The library computes on
\* 64-bit longs; the ring is scaled to the 32-bit integers TLC computes
\* with, and is wide enough for every product of the training run.)
field == 16777216

\* ring element -> the integer it stands for: the upper half is negative
Signed(n) == IF n > field \div 2 THEN n - field ELSE n

\* tensor.fix_precision() of one value: scale, cut the digits that remain,
\* wrap into the ring
fix_precision(d) ==
    LET scaled == IF d[2] <= precision_fractional
                  THEN d[1] * base ^ (precision_fractional - d[2])
                  ELSE TruncDiv(d[1], base ^ (d[2] - precision_fractional))
    IN  scaled % field

\* tensor.float_precision() of one decrypted value
float_precision(n) == Normalize(<<n, precision_fractional>>)

-----------------------------------------------------------------------------
(* The tensor library: arithmetic in the ring *)

AddMod(a, b) == (a + b) % field
SubMod(a, b) == (a - b) % field

\* a * b modulo field, six bits of b at a time (no intermediate value
\* exceeds 31 bits)
RECURSIVE MulMod(_, _)
MulMod(a, b) ==
    IF b = 0 THEN 0
    ELSE (MulMod(a, b \div 64) * 64 + a * (b % 64)) % field

RECURSIVE DotMod(_, _, _, _, _)
DotMod(A, B, r, c, k) ==
    IF k = 0 THEN 0
    ELSE AddMod(DotMod(A, B, r, c, k - 1), MulMod(A[r][k], B[k][c]))

\* torch.matmul in the ring
MatMulMod(A, B) ==
    [r \in 1..Len(A) |-> [c \in 1..Len(B[1]) |-> DotMod(A, B, r, c, Len(B))]]

AddT(A, B) == Zip(AddMod, A, B)
SubT(A, B) == Zip(SubMod, A, B)
ZeroT(A) == MapT(LAMBDA x : 0, A)

-----------------------------------------------------------------------------
(* The tensor library: the random generator.  A draw is a ring element;    *)
(* the generator walks through the ring block by block (a block is `scale` *)
(* consecutive elements), starting at a block the seed selects.            *)

Seeds == 1..NumSeeds
NumBlocks == field \div scale

BlockOf(seed, k) ==
    NumBlocks \div 4 + ((seed * SeedStep + k * DrawStep) % (NumBlocks \div 2))

Draw(seed, k) == BlockOf(seed, k) * scale + ((k * 37) % scale)

\* a rows x cols tensor of draws, the generator having made n draws before
RandT(rows, cols, g) ==
    [r \in 1..rows |-> [c \in 1..cols |->
        Draw(g.seed, g.n + (r - 1) * cols + c)]]

Advance(g, k) == [g EXCEPT !.n = @ + k]

-----------------------------------------------------------------------------
(* The tensor library: additive sharing *)

Range(s) == {s[k] : k \in 1..Len(s)}

\* tensor.share(*locations): the first location holds the mask, the last
\* one the secret minus the mask; a single location holds the secret
share(secret, locations, mask) ==
    [w \in Range(locations) |->
        IF Len(locations) = 1 THEN secret
        ELSE IF w = locations[1] THEN mask
        ELSE SubT(secret, mask)]

RECURSIVE SumShares(_, _, _)
SumShares(sh, locations, k) ==
    IF k = 1 THEN sh[locations[1]]
    ELSE AddT(SumShares(sh, locations, k - 1), sh[locations[k]])

\* the sum of the shares, in the ring
reconstruct(sh, locations) == SumShares(sh, locations, Len(locations))

\* tensor.get(): the shares are collected and summed; the result is read
\* as signed integers
get(sh, locations) == MapT(Signed, reconstruct(sh, locations))

ShAdd(x, y) == [w \in DOMAIN x |-> AddT(x[w], y[w])]
ShSub(x, y) == [w \in DOMAIN x |-> SubT(x[w], y[w])]

-----------------------------------------------------------------------------
(* The tensor library: multiplication of shared tensors with a triple of   *)
(* the crypto provider, and truncation of the product                      *)

Shape(sh) == <<Len(sh[ShareHolders[1]]), Len(sh[ShareHolders[1]][1])>>
Size(shape) == shape[1] * shape[2]

\* the value of a tensor, every entry computed once
Tensor(X) == [r \in 1..Len(X) |-> X[r] \o <<>>] \o <<>>
Shares(sh) == [w \in {} |-> 0] @@ [w \in DOMAIN sh |-> Tensor(sh[w])]

\* the provider draws a and b, computes a * b and shares a and b among the
\* locations
request_triple(g, xshape, yshape) ==
    LET a  == Tensor(RandT(xshape[1], xshape[2], g))
        g1 == Advance(g, Size(xshape))
        b  == Tensor(RandT(yshape[1], yshape[2], g1))
        g2 == Advance(g1, Size(yshape))
        am == RandT(xshape[1], xshape[2], g2)
        g3 == Advance(g2, Size(xshape))
        bm == RandT(yshape[1], yshape[2], g3)
    IN  [a |-> a, b |-> b, a_mul_b |-> Tensor(MatMulMod(a, b)),
         a_sh |-> Shares(share(a, ShareHolders, am)),
         b_sh |-> Shares(share(b, ShareHolders, bm))]

\* draws one multiplication takes: a, b, the masks of a, b and a * b
TripleDraws(xshape, yshape) ==
    2 * (Size(xshape) + Size(yshape)) + xshape[1] * yshape[2]

\* delta = x - a and epsilon = y - b are opened; each location computes
\* delta * b + a * epsilon on its shares, the first one adds delta * epsilon
spdz_open(x_sh, y_sh, triple) ==
    LET delta   == Tensor(reconstruct(ShSub(x_sh, triple.a_sh), ShareHolders))
        epsilon == Tensor(reconstruct(ShSub(y_sh, triple.b_sh), ShareHolders))
        de      == Tensor(MatMulMod(delta, epsilon))
    IN  [w \in DOMAIN x_sh |->
            AddT(AddT(IF w = ShareHolders[1] THEN de ELSE ZeroT(de),
                      MatMulMod(delta, triple.b_sh[w])),
                 MatMulMod(triple.a_sh[w], epsilon))]

\* x * y = delta*epsilon + delta*b + a*epsilon + a*b, share by share
spdz_mul(opened, c_sh) == ShAdd(opened, c_sh)

\* division of a shared tensor by the scale factor: every location divides
\* its own share, the first one the share, the others its negative
TruncFirst(s) == s \div scale
TruncOther(s) == (field - ((field - s) \div scale)) % field
truncate(sh) ==
    [w \in DOMAIN sh |->
        IF w = ShareHolders[1] THEN MapT(TruncFirst, sh[w])
        ELSE MapT(TruncOther, sh[w])]

\* The masks with which the provider shares a * b that are explored.  Any
\* tensor of ring elements is a possible mask; the ones taken here put the
\* first location's share of the product x * y into the generator's next
\* blocks, at offset 0 or scale - 1 of the block: the two offsets make the
\* truncation of the product round both ways.
Residues == {0, scale - 1}

ProviderMasks(g, xshape, yshape, opened) ==
    LET rows == xshape[1]
        cols == yshape[2]
        mine == opened[ShareHolders[1]]
        k0   == g.n + 2 * (Size(xshape) + Size(yshape))
    IN  { [r \in 1..rows |-> [c \in 1..cols |->
              SubMod(BlockOf(g.seed, k0 + (r - 1) * cols + c) * scale
                        + rho[r][c],
                     mine[r][c])]]
          : rho \in [1..rows -> [1..cols -> Residues]] }

\* x_sh.matmul(y_sh) of fixed-precision tensors: the product carries the
\* scale factor twice and is truncated once.  The set of the outcomes, each
\* with the triple that was used.
fp_matmul(g, x_sh, y_sh) ==
    LET xshape == Shape(x_sh)
        yshape == Shape(y_sh)
        triple == request_triple(g, xshape, yshape)
        opened == Shares(spdz_open(x_sh, y_sh, triple))
    IN  { [triple |-> triple,
           value  |-> truncate(spdz_mul(opened,
                          share(triple.a_mul_b, ShareHolders, c_mask)))]
          : c_mask \in ProviderMasks(g, xshape, yshape, opened) }

-----------------------------------------------------------------------------
(* The workers' object stores *)

NoObjects == [n \in {} |-> 0]

Put(st, name, sh) ==
    [w \in Workers |->
        IF w \in DOMAIN sh THEN (name :> sh[w]) @@ st[w] ELSE st[w]]

Drop(st, name) ==
    [w \in Workers |-> [n \in DOMAIN st[w] \ {name} |-> st[w][n]]]

\* the shared tensor `name`: who holds a share of it, and the share
Held(st, name) ==
    [w \in {v \in Workers : name \in DOMAIN st[v]} |-> st[w][name]]

-----------------------------------------------------------------------------
(* The secret-sharing notebook *)

\* x.fix_precision().share(alice, bob, crypto_provider=james)
Encrypt(x, mask) == share(MapT(fix_precision, x), ShareHolders, mask)

\* x.get().float_precision(); the variant reads the sum of the shares
\* as an unsigned integer
DecryptUnsigned(sh) == MapT(float_precision, reconstruct(sh, ShareHolders))
Decrypt(sh) == MapT(float_precision, get(sh, ShareHolders))

\* In [5]: data_enc, target_enc, model_enc, learning_rate_fp
EncryptCell ==
    /\ pc = "In5"
    /\ LET g1 == Advance(rng, 8)
           g2 == Advance(g1, 4)
           g3 == Advance(g2, 2)
           s1 == Put(store, "data_enc", Encrypt(data, RandT(4, 2, rng)))
           s2 == Put(s1, "target_enc", Encrypt(target, RandT(4, 1, g1)))
           s3 == Put(s2, "model_enc", Encrypt(model, RandT(2, 1, g2)))
           s4 == Put(s3, "learning_rate_fp",
                     Encrypt(<< <<learning_rate>> >>, RandT(1, 1, g3)))
       IN  /\ store' = s4
           /\ rng' = Advance(g3, 1)
    /\ pc' = "pred"
    /\ UNCHANGED <<i, stdout, as_recorded, out7, rt, kerasVars>>

\* err = pred - target_enc; the variant subtracts the other way round
ErrSwapped(st) == ShSub(Held(st, "target_enc"), Held(st, "pred"))
Err(st) == ShSub(Held(st, "pred"), Held(st, "target_enc"))

\* data_enc.t()
T(sh) == [w \in DOMAIN sh |-> Transpose(sh[w])]

\* err.get().abs().sum().float_prec()
Loss(err_sh) == float_precision(SumT(MapT(Abs, get(err_sh, ShareHolders))))

\* the provider keeps the triple it made last
PutTriple(st, triple) ==
    [st EXCEPT ![crypto_provider] =
        ("a" :> triple.a) @@ ("b" :> triple.b)
            @@ ("a_mul_b" :> triple.a_mul_b) @@ @]

\* pred = data_enc.matmul(model_enc)
PredStep ==
    /\ pc = "pred"
    /\ \E m \in fp_matmul(rng, Held(store, "data_enc"),
                          Held(store, "model_enc")) :
          /\ store' = PutTriple(Put(store, "pred", m.value), m.triple)
          /\ rng' = Advance(rng, TripleDraws(<<4, 2>>, <<2, 1>>))
    /\ pc' = "err"
    /\ UNCHANGED <<i, stdout, as_recorded, out7, rt, kerasVars>>

ErrStep ==
    /\ pc = "err"
    /\ store' = Put(store, "err", Err(store))
    /\ pc' = "update"
    /\ UNCHANGED <<i, rng, stdout, as_recorded, out7, rt, kerasVars>>

\* update = data_enc.t().matmul(err)
UpdateStep ==
    /\ pc = "update"
    /\ \E m \in fp_matmul(rng, T(Held(store, "data_enc")),
                          Held(store, "err")) :
          /\ store' = PutTriple(Put(store, "update", m.value), m.triple)
          /\ rng' = Advance(rng, TripleDraws(<<2, 4>>, <<4, 1>>))
    /\ pc' = "apply"
    /\ UNCHANGED <<i, stdout, as_recorded, out7, rt, kerasVars>>

\* model_enc = model_enc - update * learning_rate_fp   (a one-element tensor
\* as factor: the product with it is the matrix product with a 1 x 1 matrix)
ApplyStep ==
    /\ pc = "apply"
    /\ \E m \in fp_matmul(rng, Held(store, "update"),
                          Held(store, "learning_rate_fp")) :
          /\ store' = PutTriple(
                          Put(store, "model_enc",
                              ShSub(Held(store, "model_enc"), m.value)),
                          m.triple)
          /\ rng' = Advance(rng, TripleDraws(<<2, 1>>, <<1, 1>>))
    /\ pc' = "loss"
    /\ UNCHANGED <<i, stdout, as_recorded, out7, rt, kerasVars>>

\* loss = err.get()...; print(loss); the next round of the loop, or In [7]
LossStep ==
    /\ pc = "loss"
    /\ LET loss == Loss(Held(store, "err"))
       IN  /\ stdout' = IF stdout = <<>> THEN <<loss>>
                        ELSE <<stdout[Len(stdout)], loss>>
           /\ as_recorded' = (as_recorded /\ loss = recorded_stdout[i + 1])
    /\ store' = Drop(store, "err")
    /\ i' = i + 1
    /\ pc' = IF i + 1 < NumIterations THEN "pred" ELSE "In7"
    /\ UNCHANGED <<rng, out7, rt, kerasVars>>

\* In [7]: model_enc.get().float_precision()
Cell7 ==
    /\ pc = "In7"
    /\ out7' = Decrypt(Held(store, "model_enc"))
    /\ store' = Drop(store, "model_enc")
    /\ pc' = "done"
    /\ UNCHANGED <<i, rng, stdout, as_recorded, rt, kerasVars>>

NoValue == "none"
\* the name `model` before it is bound, the file before it is written
NoModel == [built_in |-> 0]

\* the notebooks that are not running stay as they are
KerasIdle ==
    /\ kpc = "idle" /\ keras_model = NoModel /\ score = NoValue
    /\ h5 = NoModel /\ execution_count = 0
RtIdle == rt = [pc |-> "idle"]
SmpcIdle ==
    /\ pc = "In5" /\ i = 0 /\ rng = [seed |-> 1, n |-> 0]
    /\ store = [w \in Workers |-> NoObjects]
    /\ stdout = <<>> /\ as_recorded = TRUE /\ out7 = NoValue

Init ==
    /\ pc = "In5"
    /\ i = 0
    /\ rng \in [seed : Seeds, n : {0}]
    /\ store = [w \in Workers |-> NoObjects]
    /\ stdout = <<>>
    /\ as_recorded = TRUE
    /\ out7 = NoValue
    /\ KerasIdle
    /\ RtIdle

Next ==
    \/ EncryptCell
    \/ PredStep
    \/ ErrStep
    \/ UpdateStep
    \/ ApplyStep
    \/ LossStep
    \/ Cell7

Spec == Init /\ [][Next]_vars

-----------------------------------------------------------------------------
(* Properties of the secret-sharing notebook *)

\* the integers that alice's and bob's shares of `name` recombine to
Recombined(st, name) == get(Held(st, name), <<"alice", "bob">>)

\* the plaintext inputs as encoded integers
X  == MapT(LAMBDA d : Signed(fix_precision(d)), data)
Y  == MapT(LAMBDA d : Signed(fix_precision(d)), target)
LR == Signed(fix_precision(learning_rate))

RECURSIVE Dot(_, _, _, _, _)
Dot(A, B, r, c, k) ==
    IF k = 0 THEN 0 ELSE Dot(A, B, r, c, k - 1) + A[r][k] * B[k][c]

\* the matrix product of integers
MatMul(A, B) ==
    [r \in 1..Len(A) |-> [c \in 1..Len(B[1]) |-> Dot(A, B, r, c, Len(B))]]

\* v / scale, truncated, with an error of at most one unit
WithinOne(res, v) == Abs(res - (v \div scale)) <= 1

\* a decimal with at most precision_fractional digits, in units of 1/scale
Units(d) == d[1] * base ^ (precision_fractional - d[2])

SharedNames == {"data_enc", "target_enc", "model_enc", "learning_rate_fp",
                "pred", "err", "update"}

\* secrets a share is compared with
AltSecrets == {<<0, 0>>, <<1, 0>>, <<-1, 0>>, <<1, 1>>, <<937, 3>>, <<-5, 1>>}

\* the share s, held by w, is the share w holds in some sharing of v
ConsistentWith(w, s, v) ==
    \E mask \in {s, SubMod(fix_precision(v), s)} :
        share(<< <<fix_precision(v)>> >>, ShareHolders, << <<mask>> >>)[w][1][1]
            = s

C5_Roles ==
    /\ \A name \in SharedNames :
          /\ name \notin DOMAIN store["james"]
          /\ name \in DOMAIN store["alice"] <=> name \in DOMAIN store["bob"]
    /\ DOMAIN store["james"] \subseteq {"a", "b", "a_mul_b"}
    /\ \A w \in {"alice", "bob"} : DOMAIN store[w] \subseteq SharedNames

\* james has made a triple, alice and bob hold the shares of everything
C5_Witness ==
    /\ pc = "loss"
    /\ DOMAIN store["james"] = {"a", "b", "a_mul_b"}
    /\ DOMAIN store["alice"] = SharedNames
    /\ DOMAIN store["bob"] = SharedNames

\* one statement of the loop, on the recombined shares
StepRefines ==
    /\ (pc = "pred" /\ pc' = "err") =>
          \A r \in 1..4 :
              WithinOne(Recombined(store', "pred")[r][1],
                        MatMul(X, Recombined(store, "model_enc"))[r][1])
    /\ (pc = "err" /\ pc' = "update") =>
          \A r \in 1..4 :
              Recombined(store', "err")[r][1]
                  = Recombined(store, "pred")[r][1] - Y[r][1]
    /\ (pc = "update" /\ pc' = "apply") =>
          \A c \in 1..2 :
              WithinOne(Recombined(store', "update")[c][1],
                        MatMul(Transpose(X), Recombined(store, "err"))[c][1])
    /\ (pc = "apply" /\ pc' = "loss") =>
          \A c \in 1..2 :
              WithinOne(Recombined(store, "model_enc")[c][1]
                            - Recombined(store', "model_enc")[c][1],
                        Recombined(store, "update")[c][1] * LR)

-----------------------------------------------------------------------------
(* Encoding and sharing one value, and getting it back *)

\* the values: decimals in normal form with up to MaxDigits digits, small,
\* at the ends of the ring's range and beyond it
RtMantissas == {0, 1, -1, 5, -25, 61, 937, -1072, 12345,
                field \div 2 - 1, field \div 2, field \div 2 + 1,
                1 - field \div 2, -(field \div 2), 9000, -9000}
RtValues ==
    {d \in RtMantissas \X (0..MaxDigits) :
        /\ Normalize(d) = d
        /\ Abs(d[1]) > 100000 => d[2] = precision_fractional}

\* the masks: draws of the generator and the ends of the ring
RtMasks == {Draw(seed, 1) : seed \in Seeds} \cup {0, field - 1}

RtInit ==
    /\ rt \in [pc : {"plain"}, v : RtValues, mask : RtMasks]
    /\ SmpcIdle
    /\ KerasIdle

\* v.fix_precision().share(alice, bob, crypto_provider=james)
RtEncrypt ==
    /\ rt.pc = "plain"
    /\ rt' = [pc |-> "shared", v |-> rt.v, mask |-> rt.mask,
              sh |-> Encrypt(<< <<rt.v>> >>, << <<rt.mask>> >>)]
    /\ UNCHANGED <<smpcVars, kerasVars>>

\* .get().float_precision()
RtDecrypt ==
    /\ rt.pc = "shared"
    /\ rt' = [pc |-> "done", v |-> rt.v, mask |-> rt.mask, sh |-> rt.sh,
              out |-> Decrypt(rt.sh)[1][1]]
    /\ UNCHANGED <<smpcVars, kerasVars>>

RtNext ==
    \/ RtEncrypt
    \/ RtDecrypt

SpecRoundTrip == RtInit /\ [][RtNext]_vars

\* the encoded value is in the signed range of the ring
InRange(d) ==
    /\ d[2] <= precision_fractional
    /\ -(field \div 2) < Units(d)
    /\ Units(d) <= field \div 2

-----------------------------------------------------------------------------
(* The Keras notebook *)

\* epochs = 2
epochs == 2

\* model.fit(..., epochs=epochs, ...); the variant fits one epoch less
fit_epochs_one == epochs - 1
fit_epochs == epochs

KerasInit ==
    /\ KerasIdle
    /\ SmpcIdle
    /\ RtIdle

\* In [1] is run: imports, constants, mnist.load_data(), the reshaping and
\* scaling of the images, to_categorical
RunTrainCell ==
    /\ kpc = "idle"
    /\ execution_count < MaxExecutions
    /\ execution_count' = execution_count + 1
    /\ kpc' = "build"
    /\ UNCHANGED <<keras_model, score, h5, smpcVars, rt>>

\* model = Sequential(); model.add(...): `model` is bound to a new,
\* untrained model.  built_in, evaluated and finished record the history of
\* the object: the execution that built it, whether model.evaluate ran on
\* it, whether that execution ran to its last statement.
Build ==
    /\ kpc = "build"
    /\ keras_model' = [built_in |-> execution_count, compiled |-> FALSE,
                       epochs_done |-> 0, evaluated |-> FALSE,
                       finished |-> FALSE]
    /\ kpc' = "compile"
    /\ UNCHANGED <<score, h5, execution_count, smpcVars, rt>>

\* model.compile(...)
Compile ==
    /\ kpc = "compile"
    /\ keras_model' = [keras_model EXCEPT !.compiled = TRUE]
    /\ kpc' = "fit"
    /\ UNCHANGED <<score, h5, execution_count, smpcVars, rt>>

\* model.fit(...): one epoch
FitEpoch ==
    /\ kpc = "fit"
    /\ keras_model.epochs_done < fit_epochs
    /\ keras_model' = [keras_model EXCEPT !.epochs_done = @ + 1]
    /\ UNCHANGED <<kpc, score, h5, execution_count, smpcVars, rt>>

\* model.fit returns; score = model.evaluate(...)
Evaluate ==
    /\ kpc = "fit"
    /\ keras_model.epochs_done = fit_epochs
    /\ score' = "score"
    /\ keras_model' = [keras_model EXCEPT !.evaluated = TRUE]
    /\ kpc' = "print"
    /\ UNCHANGED <<h5, execution_count, smpcVars, rt>>

\* print('Test loss:', ...); print('Test accuracy:', ...): the cell is done
PrintScore ==
    /\ kpc = "print"
    /\ keras_model' = [keras_model EXCEPT !.finished = TRUE]
    /\ kpc' = "idle"
    /\ UNCHANGED <<score, h5, execution_count, smpcVars, rt>>

\* a statement of In [1] raises, or the kernel is interrupted: the rest of
\* the cell is not executed, what is bound stays bound
Interrupt ==
    /\ kpc # "idle"
    /\ kpc' = "idle"
    /\ UNCHANGED <<keras_model, score, h5, execution_count, smpcVars, rt>>

\* In [2]: model.save('short-conv-mnist.h5'); a NameError when `model` is
\* not bound
RunSaveCell ==
    /\ kpc = "idle"
    /\ execution_count < MaxExecutions
    /\ execution_count' = execution_count + 1
    /\ h5' = IF keras_model = NoModel THEN h5 ELSE keras_model
    /\ UNCHANGED <<kpc, keras_model, score, smpcVars, rt>>

KerasNext ==
    \/ RunTrainCell
    \/ Build
    \/ Compile
    \/ FitEpoch
    \/ Evaluate
    \/ PrintScore
    \/ Interrupt
    \/ RunSaveCell

SpecKeras == KerasInit /\ [][KerasNext]_vars

(* C6 as stated: the saved file holds a trained model: whenever the file   *)
(* has been written, it was written from a model that model.fit trained    *)
(* for both epochs and that was evaluated.                                 *)
C6_SavedModelIsTrained ==
    h5 # NoModel => (h5.epochs_done = epochs /\ h5.evaluated)

(* C6, amended: whenever the file has been written, it was written from a  *)
(* model that an execution of the training cell built; if that execution   *)
(* ran to its last statement, the model was fit for both epochs and        *)
(* evaluated.                                                              *)
C6_SavedModelOfFinishedCellIsTrained ==
    h5 # NoModel =>
        /\ h5.built_in \in 1..execution_count
        /\ h5.finished => (h5.epochs_done = epochs /\ h5.evaluated)

\* the file was written after a training cell that ran to its end
C6_Witness ==
    /\ h5 # NoModel
    /\ h5.finished
    /\ h5.epochs_done = epochs

=============================================================================
